---- MODULE Spec2Model ----
(***************************************************************************)
(* Model of src/main.py: a FastAPI service with four handlers              *)
(* (get_user_count, get_user_name_list, delete_user, add_user) over one    *)
(* MongoDB collection, `users`.                                            *)
(*                                                                         *)
(* Every handler is an `async def` whose body calls the synchronous        *)
(* pymongo driver and never awaits: inside one server process (one event   *)
(* loop) a handler runs from its first line to its return before another   *)
(* request of that process is served (CanRun).  Server processes sharing   *)
(* the database are independent of each other, so between processes the    *)
(* unit of atomicity is one store call.  add_user makes two store calls    *)
(* (find_one, then insert_one) and is therefore two steps; the other       *)
(* handlers make one store call each and are one step.                     *)
(*                                                                         *)
(* How many server processes serve the requests is a matter of deployment, *)
(* not of the code: Init chooses it.  Documents carry no _id in the model  *)
(* (the handlers never read it); two documents with one username are told  *)
(* apart by their position in the collection.                              *)
(***************************************************************************)
EXTENDS Integers, Sequences, FiniteSets

\* ---------------------------------------------------------------- bounds

\* Largest number of documents the collection holds in the model.
MaxDocs == 3

\* The request bodies: User.username is any str, the empty string included.
Usernames == {"", "alice"}

\* The server processes that may share the database.
Procs == {"w1", "w2"}

\* The requests in flight at one time: one asyncio task each.
Tasks == {"t1", "t2"}

VARIABLES
    proc,        \* proc[t]: the server process serving task t (fixed by Init)
    users,       \* main.py:44, the collection: its documents in natural order
    pc,          \* pc[t]: where the handler of task t stands (main.py:121-127)
    user,        \* user[t]: <<username>> of the add_user in progress, or <<>>
    resp,        \* resp[t]: the last add/delete response task t returned
    user_count,  \* main.py:63, <<n>>: the last /user_count body, <<>> before any
    user_list,   \* main.py:81, <<l>>: the last /user_name_list body, <<>> before any
    count_fresh, \* history: no document was written since user_count was read
    list_fresh,  \* history: no document was written since user_list was read
    matched      \* history: documents that matched the last delete_one filter

vars == <<proc, users, pc, user, resp, user_count, user_list,
          count_fresh, list_fresh, matched>>

\* ------------------------------------------------------ the document store

\* The document insert_one stores: {"username": user.username}.
Doc(u) == [username |-> u]

\* The positions of the documents matching the filter {"username": u}.
Matching(coll, u) == {i \in 1..Len(coll) : coll[i].username = u}

\* The collection without the document at position i.
RemoveAt(coll, i) == [j \in 1..(Len(coll) - 1) |-> IF j < i THEN coll[j] ELSE coll[j + 1]]

\* users.count_documents({}): every document counts.
count_documents(coll) == Len(coll)

\* Mutant: the comprehension keeps only the truthy usernames.
find_usernames_truthy(coll) ==
    LET names == [i \in 1..Len(coll) |-> coll[i].username]
        Truthy(n) == n # ""
    IN SelectSeq(names, Truthy)

\* [doc["username"] for doc in users.find({}, {"username": 1, "_id": 0})]
find_usernames(coll) == [i \in 1..Len(coll) |-> coll[i].username]

\* users.find_one({"username": u}): truthy when some document matches.
find_one(coll, u) == Matching(coll, u) # {}

\* Mutant: the document is built and never stored.
insert_one_dropped(coll, u) == coll

\* users.insert_one({"username": u}).
insert_one(coll, u) == Append(coll, Doc(u))

\* Mutant: the filter is left empty, delete_one({}): the first document goes.
delete_one_any(coll, u) ==
    IF Len(coll) = 0
    THEN {[coll |-> coll, deleted_count |-> 0]}
    ELSE {[coll |-> RemoveAt(coll, 1), deleted_count |-> 1]}

\* Mutant: delete_many in place of delete_one: every matching document goes.
delete_one_many(coll, u) ==
    LET Keep(d) == d.username # u
    IN {[coll |-> SelectSeq(coll, Keep),
         deleted_count |-> Cardinality(Matching(coll, u))]}

\* users.delete_one({"username": u}): the outcomes the store can produce.  Which
\* of several matching documents goes is the store's choice.
delete_one(coll, u) ==
    IF Matching(coll, u) = {}
    THEN {[coll |-> coll, deleted_count |-> 0]}
    ELSE {[coll |-> RemoveAt(coll, i), deleted_count |-> 1] : i \in Matching(coll, u)}

\* -------------------------------------------------------------- responses

\* f"User {user.username} <what>" kept as its three parts.
Message(u, what) == <<"User ", u, what>>

Response(ok, u, what) == [state |-> ok, message |-> Message(u, what)]

NoResponse == [state |-> FALSE, message |-> <<>>]

\* ------------------------------------------------------------------ state

\* The collections of at most n documents.
Collections(n) == UNION {[1..k -> {Doc(u) : u \in Usernames}] : k \in 0..n}

\* The values the state takes.
TypeOK ==
    /\ proc \in [Tasks -> Procs]
    /\ users \in Collections(MaxDocs)
    /\ pc \in [Tasks -> {"idle", "insert"}]
    /\ \A t \in Tasks : user[t] \in {<<>>} \cup {<<u>> : u \in Usernames}
    /\ \A t \in Tasks : (pc[t] = "insert") <=> (user[t] # <<>>)
    /\ \A t \in Tasks :
          \/ resp[t] = NoResponse
          \/ \E u \in Usernames :
                resp[t] \in {Response(TRUE, u, " added."),
                             Response(FALSE, u, " already exists."),
                             Response(TRUE, u, " deleted."),
                             Response(FALSE, u, " not found.")}
    /\ user_count \in {<<>>} \cup {<<n>> : n \in 0..MaxDocs}
    /\ user_list \in {<<>>} \cup {<<find_usernames(c)>> : c \in Collections(MaxDocs)}
    /\ count_fresh \in BOOLEAN
    /\ list_fresh \in BOOLEAN
    /\ matched \in 0..MaxDocs

\* ------------------------------------------------------------------- Init

Init ==
    /\ proc \in {f \in [Tasks -> Procs] : f["t1"] = "w1"}
    /\ users = <<>>
    /\ pc = [t \in Tasks |-> "idle"]
    /\ user = [t \in Tasks |-> <<>>]
    /\ resp = [t \in Tasks |-> NoResponse]
    /\ user_count = <<>>
    /\ user_list = <<>>
    /\ count_fresh = FALSE
    /\ list_fresh = FALSE
    /\ matched = 0

\* ------------------------------------------------------------- scheduling

\* Mutant: the handlers await the store, so a process serves another task
\* while one of its handlers is between two store calls.
CanRunAwait(t) == TRUE

\* The event loop of a process runs one handler at a time: no handler body
\* holds an await, so task t is served only while no other task of its process
\* is inside its handler.
CanRun(t) == \A q \in Tasks \ {t} : proc[q] = proc[t] => pc[q] = "idle"

\* ---------------------------------------------------------------- actions

\* GET /user_count
get_user_count(t) ==
    /\ CanRun(t)
    /\ pc[t] = "idle"
    /\ user_count' = <<count_documents(users)>>
    /\ count_fresh' = TRUE
    /\ UNCHANGED <<proc, users, pc, user, resp, user_list, list_fresh, matched>>

\* GET /user_name_list
get_user_name_list(t) ==
    /\ CanRun(t)
    /\ pc[t] = "idle"
    /\ user_list' = <<find_usernames(users)>>
    /\ list_fresh' = TRUE
    /\ UNCHANGED <<proc, users, pc, user, resp, user_count, count_fresh, matched>>

\* POST /delete-user: one delete_one call, then the response.
delete_user(t, u) ==
    /\ CanRun(t)
    /\ pc[t] = "idle"
    /\ \E result \in delete_one(users, u) :
          /\ users' = result.coll
          /\ resp' = [resp EXCEPT ![t] =
                        IF result.deleted_count = 1
                        THEN Response(TRUE, u, " deleted.")
                        ELSE Response(FALSE, u, " not found.")]
          /\ count_fresh' = (count_fresh /\ result.deleted_count = 0)
          /\ list_fresh' = (list_fresh /\ result.deleted_count = 0)
    /\ matched' = Cardinality(Matching(users, u))
    /\ UNCHANGED <<proc, pc, user, user_count, user_list>>

\* Room left in the collection, counting the inserts already decided on.
Room == Len(users) + Cardinality({q \in Tasks : pc[q] = "insert"}) < MaxDocs

\* Mutant: the result of find_one is not acted on (the early return is lost):
\* the handler goes on to insert_one whether or not a record matches.
add_user_find_one_no_return(t, u) ==
    /\ CanRun(t)
    /\ pc[t] = "idle"
    /\ Room
    /\ pc' = [pc EXCEPT ![t] = "insert"]
    /\ user' = [user EXCEPT ![t] = <<u>>]
    /\ UNCHANGED <<proc, users, resp, user_count, user_list, count_fresh, list_fresh, matched>>

\* POST /add-user, first store call: find_one.  A match ends the request with
\* the failure response; otherwise the handler goes on to insert_one.
add_user_find_one(t, u) ==
    /\ CanRun(t)
    /\ pc[t] = "idle"
    /\ IF find_one(users, u)
       THEN /\ resp' = [resp EXCEPT ![t] = Response(FALSE, u, " already exists.")]
            /\ UNCHANGED <<pc, user>>
       ELSE /\ Room
            /\ pc' = [pc EXCEPT ![t] = "insert"]
            /\ user' = [user EXCEPT ![t] = <<u>>]
            /\ UNCHANGED resp
    /\ UNCHANGED <<proc, users, user_count, user_list, count_fresh, list_fresh, matched>>

\* Mutant: the insert is an atomic insert-if-absent (a unique index on username
\* whose violation is reported as "already exists").
add_user_insert_if_absent(t) ==
    /\ CanRun(t)
    /\ pc[t] = "insert"
    /\ IF find_one(users, user[t][1])
       THEN /\ resp' = [resp EXCEPT ![t] = Response(FALSE, user[t][1], " already exists.")]
            /\ UNCHANGED <<users, count_fresh, list_fresh>>
       ELSE /\ users' = insert_one(users, user[t][1])
            /\ resp' = [resp EXCEPT ![t] = Response(TRUE, user[t][1], " added.")]
            /\ count_fresh' = FALSE
            /\ list_fresh' = FALSE
    /\ pc' = [pc EXCEPT ![t] = "idle"]
    /\ user' = [user EXCEPT ![t] = <<>>]
    /\ UNCHANGED <<proc, user_count, user_list, matched>>

\* POST /add-user, second store call: insert_one, then the success response.
add_user_insert_one(t) ==
    /\ CanRun(t)
    /\ pc[t] = "insert"
    /\ users' = insert_one(users, user[t][1])
    /\ resp' = [resp EXCEPT ![t] = Response(TRUE, user[t][1], " added.")]
    /\ pc' = [pc EXCEPT ![t] = "idle"]
    /\ user' = [user EXCEPT ![t] = <<>>]
    /\ count_fresh' = FALSE
    /\ list_fresh' = FALSE
    /\ UNCHANGED <<proc, user_count, user_list, matched>>

Next ==
    \E t \in Tasks :
        \/ get_user_count(t)
        \/ get_user_name_list(t)
        \/ \E u \in Usernames : delete_user(t, u)
        \/ \E u \in Usernames : add_user_find_one(t, u)
        \/ add_user_insert_one(t)

Spec == Init /\ [][Next]_vars

\* ------------------------------------------------------------- vocabulary

\* The number of records the collection holds for username u.
Records(coll, u) == Cardinality(Matching(coll, u))

\* How often username u occurs in a list of usernames.
Occurrences(names, u) == Cardinality({i \in 1..Len(names) : names[i] = u})

\* All tasks are served by one server process.
SingleProcess == \A t \in Tasks : proc[t] = proc["t1"]

\* ----------------------------------------------------------------- claims

\* C1: in every reachable state the collection holds at most one record per
\* distinct username.
C1_AtMostOneRecordPerUsername ==
    \A u \in Usernames : Records(users, u) <= 1

\* C2: add_user(U) for a username U without a record goes on to insert_one
\* instead of failing, returns state true with "User U added.", and the list
\* list_usernames() then reads from the store holds U exactly once.
C2_AddAbsentSucceedsAndIsListedOnce ==
    [][\A t \in Tasks, u \in Usernames :
        /\ (add_user_find_one(t, u) /\ Records(users, u) = 0)
              => (pc'[t] = "insert" /\ user'[t] = <<u>> /\ resp'[t] = resp[t])
        /\ (add_user_insert_one(t) /\ user[t] = <<u>> /\ Records(users, u) = 0)
              => /\ resp'[t] = [state |-> TRUE, message |-> <<"User ", u, " added.">>]
                 /\ Occurrences(find_usernames(users'), u) = 1]_vars

\* C2 witness: an add_user has succeeded and a list read since the last write
\* shows its username exactly once.
C2_Witness ==
    \E t \in Tasks, u \in Usernames :
        /\ resp[t] = [state |-> TRUE, message |-> <<"User ", u, " added.">>]
        /\ list_fresh
        /\ user_list # <<>>
        /\ Occurrences(user_list[1], u) = 1

\* C3: with exactly one record for U in the store (the state the first, successful
\* add_user(U) leaves), a second add_user(U) returns state false with
\* "User U already exists.", never reaches insert_one, leaves the store as it
\* was, and the store still holds exactly one record for U.
C3_SecondAddFailsStoreUnchanged ==
    [][\A t \in Tasks, u \in Usernames :
        /\ (add_user_insert_one(t) /\ user[t] = <<u>> /\ Records(users, u) = 0)
              => (resp'[t].state = TRUE /\ Records(users', u) = 1)
        /\ (add_user_find_one(t, u) /\ Records(users, u) = 1)
              => /\ resp'[t] = [state |-> FALSE,
                                message |-> <<"User ", u, " already exists.">>]
                 /\ pc'[t] = "idle"
                 /\ users' = users
                 /\ Records(users', u) = 1]_vars

\* C3 witness: one task holds the success of the first add_user(U), the other
\* the "already exists" failure of the second, and the store holds U once.
C3_Witness ==
    \E t \in Tasks, q \in Tasks, u \in Usernames :
        /\ resp[t] = [state |-> TRUE, message |-> <<"User ", u, " added.">>]
        /\ resp[q] = [state |-> FALSE, message |-> <<"User ", u, " already exists.">>]
        /\ Records(users, u) = 1

\* C4: delete_user(U) for a username U without a record returns state false
\* with "User U not found." and leaves the store as it was: count_documents
\* gives the same value before and after, and a count read before stays valid.
C4_DeleteAbsentNotFoundStoreUnchanged ==
    [][\A t \in Tasks, u \in Usernames :
        (delete_user(t, u) /\ Records(users, u) = 0)
           => /\ resp'[t] = [state |-> FALSE, message |-> <<"User ", u, " not found.">>]
              /\ users' = users
              /\ count_documents(users') = count_documents(users)
              /\ count_fresh' = count_fresh]_vars

\* C4 witness: a delete_user has answered "not found" on a store that holds
\* records, and the count read before it is still the store's count.
C4_Witness ==
    \E t \in Tasks, u \in Usernames :
        /\ resp[t] = [state |-> FALSE, message |-> <<"User ", u, " not found.">>]
        /\ Records(users, u) = 0
        /\ count_fresh
        /\ user_count = <<count_documents(users)>>
        /\ Len(users) >= 1

\* C5: delete_user(U) for a username U with a record, in any reachable state,
\* returns state true with "User U deleted.", lowers the count by exactly 1,
\* and U is absent from the list read afterwards.
C5_DeletePresentRemovesUsername ==
    [][\A t \in Tasks, u \in Usernames :
        (delete_user(t, u) /\ Records(users, u) >= 1)
           => /\ resp'[t] = [state |-> TRUE, message |-> <<"User ", u, " deleted.">>]
              /\ count_documents(users') = count_documents(users) - 1
              /\ Occurrences(find_usernames(users'), u) = 0]_vars

\* C6 as stated: once both have been read, the value of count_users() equals
\* the length of the list of list_usernames(), add_user/delete_user requests
\* of other callers between the two reads included.
C6_CountEqualsListLengthAlways ==
    (user_count # <<>> /\ user_list # <<>>) => user_count[1] = Len(user_list[1])

\* C6 amended: the value of count_users() equals the length of the list of
\* list_usernames() whenever no add_user or delete_user has written to the
\* store since either read; each read then also agrees with the store.
C6_CountEqualsListLengthSameStore ==
    /\ (count_fresh /\ list_fresh)
          => (user_count # <<>> /\ user_list # <<>>
              /\ user_count[1] = Len(user_list[1]))
    /\ count_fresh => user_count = <<Len(users)>>
    /\ list_fresh => (user_list # <<>> /\ Len(user_list[1]) = Len(users))

\* C6 witness: both reads were made of a store of at least two records, one of
\* them with the empty username, and nothing was written since.
C6_Witness ==
    /\ count_fresh
    /\ list_fresh
    /\ user_count # <<>>
    /\ user_count[1] >= 2
    /\ Records(users, "") >= 1

\* C7: no record of the collection has the empty username.
C7_NoEmptyUsername ==
    \A i \in 1..Len(users) : users[i].username # ""

\* C8: the insert_one of add_user does not check again: it adds one record for
\* its username and returns success whatever the store holds by then, so two
\* add_user(U) that both found U absent both insert and both succeed.
C8_InsertDoesNotRecheck ==
    [][\A t \in Tasks :
        add_user_insert_one(t)
           => /\ Records(users', user[t][1]) = Records(users, user[t][1]) + 1
              /\ resp'[t] = [state |-> TRUE,
                             message |-> <<"User ", user[t][1], " added.">>]]_vars

\* C8 witness: both tasks hold the success response of add_user("alice") and
\* the store holds two records for "alice".
C8_Witness ==
    /\ \A t \in Tasks :
          resp[t] = [state |-> TRUE, message |-> <<"User ", "alice", " added.">>]
    /\ Records(users, "alice") = 2

\* C9: one delete_user(U) removes at most one record, returns state true
\* exactly when it removed one, lowers the number of records for U by one
\* whenever there is one (k >= 2 records leave k - 1), and removes no record
\* of another username.
C9_DeleteRemovesAtMostOne ==
    [][\A t \in Tasks, u \in Usernames :
        delete_user(t, u)
           => LET removed == Len(users) - Len(users')
                  k == Records(users, u)
              IN /\ removed \in {0, 1}
                 /\ (resp'[t].state = TRUE) <=> (removed = 1)
                 /\ Records(users', u) = (IF k >= 1 THEN k - 1 ELSE 0)
                 /\ \A v \in Usernames \ {u} : Records(users', v) = Records(users, v)]_vars

\* C9 witness: a delete_user(U) whose filter matched two or more records has
\* answered "deleted", and the store still holds one record fewer for U.
C9_Witness ==
    \E t \in Tasks, u \in Usernames :
        /\ resp[t] = [state |-> TRUE, message |-> <<"User ", u, " deleted.">>]
        /\ matched >= 2
        /\ Records(users, u) = matched - 1

====
